---- MODULE Spec2Model ----
(***************************************************************************)
(* Vector-based matrix evaluation of light-matrix (matrix_vector_eval.h):  *)
(* the cost model, the evaluator type map, the five evaluators, the linear *)
(* and per-column loops and the evaluate entry point.                      *)
(*                                                                         *)
(* Storage is modelled as functions from offsets 0..n-1 to element values; *)
(* a pointer is an offset into the storage it points into.                 *)
(***************************************************************************)
EXTENDS Integers, Sequences, FiniteSets, TLC

\* ------------------------------------------------------------------ bounds
MaxRows == 4
MaxCols == 2
MaxPad == 1
MaxCalls == 2

\* --------------------------------------------------------- program constants
VEC_EVAL_CACHE_COST == 1000
SHORTVEC_LENGTH_THRESHOLD == 4
SHORTVEC_PERCOL_COST == 200

\* The marker of a dimension only known at run time.  The loops specialised
\* for static sizes assert CTSize > 0 / CTRows > 0, the ones specialised for
\* DynamicDim do not: the marker is not a positive size.
DynamicDim == 0

ExprKinds == {"dense_contiguous", "dense_strided", "non_dense", "const_matrix"}
Orgs == {"as_linear_vec", "per_column"}

\* ------------------------------------------------ expression type properties
is_const_matrix(X) == X.kind = "const_matrix"

is_dense_mat(X) == X.kind \in {"dense_contiguous", "dense_strided"}

ct_has_continuous_layout(X) == X.kind = "dense_contiguous"

ct_rows(X) == X.ct_rows

ct_cols(X) == X.ct_cols

binary_ct_rows(X, D) == ct_rows(X)

binary_ct_cols(X, D) == ct_cols(X)

binary_ct_size(X, D) ==
    IF ct_rows(X) = DynamicDim \/ ct_cols(X) = DynamicDim
    THEN DynamicDim
    ELSE ct_rows(X) * ct_cols(X)

\* The logical (row, col) element of an expression.
elem(X, i, j) ==
    CASE X.kind = "const_matrix" -> X.val
      [] X.kind = "non_dense" -> X.data[i + j * X.ldim] + X.data[i + j * X.ldim]
      [] OTHER -> X.data[i + j * X.ldim]

nelems(D) == D.nrows * D.ncols

\* ------------------------------------------------- evaluator map, cost model
\* Faulty variant: the contiguity test is left out of can_direct.
generic_vector_eval_linear_dense_only(X) ==
    LET can_direct == is_dense_mat(X)
    IN  [evaluator_type |-> IF can_direct THEN "continuous_linear_evaluator"
                                          ELSE "cached_linear_evaluator",
         cost |-> IF can_direct THEN 0 ELSE VEC_EVAL_CACHE_COST]

generic_vector_eval_linear(X) ==
    LET can_direct == is_dense_mat(X) /\ ct_has_continuous_layout(X)
    IN  [evaluator_type |-> IF can_direct THEN "continuous_linear_evaluator"
                                          ELSE "cached_linear_evaluator",
         cost |-> IF can_direct THEN 0 ELSE VEC_EVAL_CACHE_COST]

\* Faulty variant: every expression is taken to be directly addressable.
generic_vector_eval_percol_always_direct(X) ==
    LET has_short_col == ct_rows(X) < SHORTVEC_LENGTH_THRESHOLD
    IN  [evaluator_type |-> "dense_percol_evaluator",
         normal_cost |-> 0,
         shortv_cost |-> SHORTVEC_PERCOL_COST,
         cost |-> IF has_short_col THEN SHORTVEC_PERCOL_COST ELSE 0]

generic_vector_eval_percol(X) ==
    LET can_direct == is_dense_mat(X)
        has_short_col == ct_rows(X) < SHORTVEC_LENGTH_THRESHOLD
        normal_cost == IF can_direct THEN 0 ELSE VEC_EVAL_CACHE_COST
        shortv_cost == SHORTVEC_PERCOL_COST + normal_cost
    IN  [evaluator_type |-> IF can_direct THEN "dense_percol_evaluator"
                                          ELSE "cached_percol_evaluator",
         normal_cost |-> normal_cost,
         shortv_cost |-> shortv_cost,
         cost |-> IF has_short_col THEN shortv_cost ELSE normal_cost]

generic_vector_eval(X, org) ==
    IF org = "as_linear_vec" THEN generic_vector_eval_linear(X)
                             ELSE generic_vector_eval_percol(X)

\* Faulty variant: the const_matrix specialisations are missing.
vector_eval_no_const(X, org) ==
    IF org = "as_linear_vec"
    THEN [evaluator_type |-> generic_vector_eval(X, org).evaluator_type,
          cost |-> generic_vector_eval(X, org).cost]
    ELSE [evaluator_type |-> generic_vector_eval(X, org).evaluator_type,
          normal_cost |-> generic_vector_eval(X, org).normal_cost,
          shortv_cost |-> generic_vector_eval(X, org).shortv_cost]

\* vector_eval: the members each specialisation declares.  The generic
\* per_column specialisation declares evaluator_type, normal_cost and
\* shortv_cost, and no member cost.
vector_eval(X, org) ==
    CASE is_const_matrix(X) /\ org = "as_linear_vec" ->
            [evaluator_type |-> "const_linear_evaluator", cost |-> 0]
      [] is_const_matrix(X) /\ org = "per_column" ->
            [evaluator_type |-> "const_percol_evaluator",
             normal_cost |-> 0, shortv_cost |-> 0, cost |-> 0]
      [] ~is_const_matrix(X) /\ org = "as_linear_vec" ->
            [evaluator_type |-> generic_vector_eval(X, org).evaluator_type,
             cost |-> generic_vector_eval(X, org).cost]
      [] OTHER ->
            [evaluator_type |-> generic_vector_eval(X, org).evaluator_type,
             normal_cost |-> generic_vector_eval(X, org).normal_cost,
             shortv_cost |-> generic_vector_eval(X, org).shortv_cost]

has_member(r, m) == m \in DOMAIN r

\* vector_eval_default_policy<Expr>: instantiable only when both
\* vector_eval specialisations have the member cost it reads.
vector_eval_default_policy(X) ==
    LET lin == vector_eval(X, "as_linear_vec")
        pcl == vector_eval(X, "per_column")
    IN  IF has_member(lin, "cost") /\ has_member(pcl, "cost")
        THEN [well_formed |-> TRUE,
              linear_cost |-> lin.cost,
              percol_cost |-> pcl.cost,
              choose_linear |-> (lin.cost <= pcl.cost),
              org |-> IF lin.cost <= pcl.cost THEN "as_linear_vec"
                                              ELSE "per_column"]
        ELSE [well_formed |-> FALSE,
              linear_cost |-> 0, percol_cost |-> 0,
              choose_linear |-> FALSE, org |-> "none"]


\* ------------------------------------------------------------------- state
VARIABLES
    src,        \* the expression: its type properties, shape and storage
    dst,        \* the destination dense matrix: shape, lead_dim, storage
    req,        \* the policy the caller passes: an organization, or "default"
    pc,         \* position of the call: start, rejected, resolved, loop, done
    org,        \* Org of the vector_eval_policy evaluate is instantiated with
    evaluator,  \* the evaluator object local to evaluate
    i, j, pd,   \* loop indices and the destination column pointer
    log,        \* events of the current call, in order
    ncache,     \* materialisations of the expression in the current call
    calls,      \* evaluate calls started on this (src, dst)
    dst_first,  \* destination storage when the first call returned
    heap,       \* concurrent calls: the storage shared by the threads
    threads     \* concurrent calls: the state of each thread's evaluate

vars == <<src, dst, req, pc, org, evaluator, i, j, pd, log, ncache, calls,
          dst_first, heap, threads>>

\* Read of storage through a pointer; a read outside the storage is
\* undefined and may yield any element value.
AnyT == {0, 1}

Deref(mem, p) == IF p \in DOMAIN mem THEN {mem[p]} ELSE AnyT

\* Faulty variant: pd[p] += v
Store_accumulate(mem, p, v) == [mem EXCEPT ![p] = @ + v]

\* pd[p] = v
Store(mem, p, v) == [mem EXCEPT ![p] = v]

\* -------------------------------------------------------------- evaluators
NoEvaluator ==
    [type |-> "none", m_data |-> 0, m_ldim |-> 0, m_val |-> 0,
     m_cache |-> [ldim |-> 0, data |-> << >>]]

\* dense_matrix<T>(X): a fresh contiguous matrix holding every element of X.
dense_matrix(X) ==
    [ldim |-> X.nrows,
     data |-> [p \in 0 .. (X.nrows * X.ncols - 1) |->
                  elem(X, p % X.nrows, p \div X.nrows)]]

continuous_linear_evaluator(X) ==
    [NoEvaluator EXCEPT !.type = "continuous_linear_evaluator", !.m_data = 0]

\* Faulty variant: the stride is the row count, not the leading dimension.
dense_percol_evaluator_nrows(X) ==
    [NoEvaluator EXCEPT !.type = "dense_percol_evaluator",
                        !.m_ldim = X.nrows, !.m_data = 0]

dense_percol_evaluator(X) ==
    [NoEvaluator EXCEPT !.type = "dense_percol_evaluator",
                        !.m_ldim = X.ldim, !.m_data = 0]

const_linear_evaluator(X) ==
    [NoEvaluator EXCEPT !.type = "const_linear_evaluator", !.m_val = X.val]

const_percol_evaluator(X) ==
    [NoEvaluator EXCEPT !.type = "const_percol_evaluator", !.m_val = X.val]

cached_linear_evaluator(X) ==
    [NoEvaluator EXCEPT !.type = "cached_linear_evaluator",
                        !.m_cache = dense_matrix(X), !.m_data = 0]

cached_percol_evaluator(X) ==
    [NoEvaluator EXCEPT !.type = "cached_percol_evaluator",
                        !.m_cache = dense_matrix(X),
                        !.m_ldim = dense_matrix(X).ldim, !.m_data = 0]

construct(type, X) ==
    CASE type = "continuous_linear_evaluator" -> continuous_linear_evaluator(X)
      [] type = "dense_percol_evaluator" -> dense_percol_evaluator(X)
      [] type = "const_linear_evaluator" -> const_linear_evaluator(X)
      [] type = "const_percol_evaluator" -> const_percol_evaluator(X)
      [] type = "cached_linear_evaluator" -> cached_linear_evaluator(X)
      [] OTHER -> cached_percol_evaluator(X)

is_cached(E) ==
    E.type \in {"cached_linear_evaluator", "cached_percol_evaluator"}

is_const(E) ==
    E.type \in {"const_linear_evaluator", "const_percol_evaluator"}

\* The storage m_data points into.
backing(E, X) == IF is_cached(E) THEN E.m_cache.data ELSE X.data

\* get_value(i): the set of values the read can yield.
get_value(E, X, k) ==
    IF is_const(E) THEN {E.m_val} ELSE Deref(backing(E, X), E.m_data + k)

next_column(E) ==
    IF is_const(E) THEN E ELSE [E EXCEPT !.m_data = @ + E.m_ldim]

\* ------------------------------------------------------------------ loops
\* Faulty variant: the dynamic loop runs over one column only.
linear_len_one_column(X, D) ==
    IF binary_ct_size(X, D) = DynamicDim THEN D.nrows
                                         ELSE binary_ct_size(X, D)

\* Bound of the linear loop: CTSize, or dst.nelems() when dynamic.
linear_len(X, D) ==
    IF binary_ct_size(X, D) = DynamicDim THEN nelems(D)
                                         ELSE binary_ct_size(X, D)

\* Faulty variant: the inner loop runs to the row count inclusive.
percol_rows_inclusive(X, D) ==
    (IF binary_ct_rows(X, D) = DynamicDim THEN D.nrows
                                          ELSE binary_ct_rows(X, D)) + 1

\* Bound of the per-column inner loop: CTRows, or dst.nrows() when dynamic.
percol_rows(X, D) ==
    IF binary_ct_rows(X, D) = DynamicDim THEN D.nrows
                                         ELSE binary_ct_rows(X, D)

\* ------------------------------------------------------------------- Init
StaticDims == {"dynamic", "ct_rows", "ct_rows_cols"}

MakeSrc(kind, sd, nr, nc, pad) ==
    [kind |-> kind,
     ct_rows |-> IF sd = "dynamic" THEN DynamicDim ELSE nr,
     ct_cols |-> IF sd = "ct_rows_cols" THEN nc ELSE DynamicDim,
     nrows |-> nr, ncols |-> nc, ldim |-> nr + pad,
     data |-> IF kind = "const_matrix" THEN << >>
              ELSE [p \in 0 .. ((nr + pad) * nc - 1) |-> p + 1],
     val |-> IF kind = "const_matrix" THEN 7 ELSE 0]

MakeDst(nr, nc, pad) ==
    [nrows |-> nr, ncols |-> nc, ldim |-> nr + pad,
     data |-> [p \in 0 .. ((nr + pad) * nc - 1) |-> 0]]

Init ==
    /\ \E kind \in ExprKinds, sd \in StaticDims,
          nr \in 0 .. MaxRows, nc \in 0 .. MaxCols,
          spad \in 0 .. MaxPad, dpad \in 0 .. MaxPad :
          /\ sd # "dynamic" => nr > 0
          /\ sd = "ct_rows_cols" => nc > 0
          /\ kind # "dense_strided" => spad = 0
          /\ src = MakeSrc(kind, sd, nr, nc, spad)
          /\ dst = MakeDst(nr, nc, dpad)
    /\ req \in Orgs \cup {"default"}
    /\ pc = "start"
    /\ org = "none"
    /\ evaluator = NoEvaluator
    /\ i = 0 /\ j = 0 /\ pd = 0
    /\ log = << >>
    /\ ncache = 0
    /\ calls = 0
    /\ dst_first = << >>
    /\ heap = << >>
    /\ threads = << >>

\* ---------------------------------------------------------------- actions
\* Specialisation of evaluate for the policy the caller names.  The default
\* policy of an expression type for which it cannot be instantiated does not
\* build: nothing runs.
evaluate_specialize ==
    /\ pc = "start"
    /\ IF req = "default"
       THEN IF vector_eval_default_policy(src).well_formed
            THEN /\ org' = vector_eval_default_policy(src).org
                 /\ pc' = "resolved"
            ELSE /\ org' = "none"
                 /\ pc' = "rejected"
       ELSE /\ org' = req
            /\ pc' = "resolved"
    /\ UNCHANGED <<src, dst, req, evaluator, i, j, pd, log, ncache, calls,
                   dst_first, heap, threads>>

\* typename vector_eval<Expr, Org, Means>::evaluator_type evaluator(src)
evaluate_construct ==
    /\ pc = "resolved"
    /\ calls < MaxCalls
    /\ calls' = calls + 1
    /\ evaluator' = construct(vector_eval(src, org).evaluator_type, src)
    /\ ncache' = IF is_cached(evaluator') THEN 1 ELSE 0
    /\ log' = IF is_cached(evaluator') THEN << <<"materialize">> >> ELSE << >>
    /\ i' = 0 /\ j' = 0 /\ pd' = 0
    /\ pc' = "loop"
    /\ UNCHANGED <<src, dst, req, org, dst_first, heap, threads>>

\* linear_eval_impl body: pd[i] = evaluator.get_value(i)
linear_eval_impl_step ==
    /\ pc = "loop" /\ org = "as_linear_vec"
    /\ i < linear_len(src, dst)
    /\ \E v \in get_value(evaluator, src, i) :
          dst' = [dst EXCEPT !.data = Store(@, pd + i, v)]
    /\ log' = Append(log, <<"rw", pd + i, evaluator.m_data + i>>)
    /\ i' = i + 1
    /\ UNCHANGED <<src, req, pc, org, evaluator, j, pd, ncache, calls,
                   dst_first, heap, threads>>

\* percol_eval_impl inner loop body: pd[i] = evaluator.get_value(i)
percol_eval_impl_step ==
    /\ pc = "loop" /\ org = "per_column"
    /\ j < dst.ncols
    /\ i < percol_rows(src, dst)
    /\ \E v \in get_value(evaluator, src, i) :
          dst' = [dst EXCEPT !.data = Store(@, pd + i, v)]
    /\ log' = Append(log, <<"rw", pd + i, evaluator.m_data + i>>)
    /\ i' = i + 1
    /\ UNCHANGED <<src, req, pc, org, evaluator, j, pd, ncache, calls,
                   dst_first, heap, threads>>

\* Faulty variant: next_column is not invoked after the last column.
percol_eval_impl_next_skip_last ==
    /\ pc = "loop" /\ org = "per_column"
    /\ j < dst.ncols
    /\ i >= percol_rows(src, dst)
    /\ j' = j + 1
    /\ pd' = pd + dst.ldim
    /\ evaluator' = IF j + 1 < dst.ncols THEN next_column(evaluator)
                                        ELSE evaluator
    /\ log' = IF j + 1 < dst.ncols THEN Append(log, <<"next_column">>)
                                  ELSE log
    /\ i' = 0
    /\ UNCHANGED <<src, dst, req, pc, org, ncache, calls, dst_first, heap, threads>>

\* Faulty variant: pd advances by the row count, not the leading dimension.
percol_eval_impl_next_pd_nrows ==
    /\ pc = "loop" /\ org = "per_column"
    /\ j < dst.ncols
    /\ i >= percol_rows(src, dst)
    /\ j' = j + 1
    /\ pd' = pd + dst.nrows
    /\ evaluator' = next_column(evaluator)
    /\ log' = Append(log, <<"next_column">>)
    /\ i' = 0
    /\ UNCHANGED <<src, dst, req, pc, org, ncache, calls, dst_first, heap,
                   threads>>

\* percol_eval_impl outer loop increment:
\* ++j, pd += ldim, evaluator.next_column()
percol_eval_impl_next ==
    /\ pc = "loop" /\ org = "per_column"
    /\ j < dst.ncols
    /\ i >= percol_rows(src, dst)
    /\ j' = j + 1
    /\ pd' = pd + dst.ldim
    /\ evaluator' = next_column(evaluator)
    /\ log' = Append(log, <<"next_column">>)
    /\ i' = 0
    /\ UNCHANGED <<src, dst, req, pc, org, ncache, calls, dst_first, heap, threads>>

\* The loop ends, the evaluator goes out of scope, evaluate returns.
evaluate_return ==
    /\ pc = "loop"
    /\ IF org = "as_linear_vec" THEN i >= linear_len(src, dst)
                                ELSE j >= dst.ncols
    /\ pc' = "done"
    /\ evaluator' = NoEvaluator
    /\ dst_first' = IF calls = 1 THEN dst.data ELSE dst_first
    /\ UNCHANGED <<src, dst, req, org, i, j, pd, log, ncache, calls, heap,
                   threads>>

\* The caller calls evaluate again with the same expression and destination.
evaluate_again ==
    /\ pc = "done"
    /\ calls < MaxCalls
    /\ pc' = "resolved"
    /\ UNCHANGED <<src, dst, req, org, evaluator, i, j, pd, log, ncache,
                   calls, dst_first, heap, threads>>

Next ==
    \/ evaluate_specialize
    \/ evaluate_construct
    \/ linear_eval_impl_step
    \/ percol_eval_impl_step
    \/ percol_eval_impl_next
    \/ evaluate_return
    \/ evaluate_again

Spec == Init /\ [][Next]_vars


\* ------------------------------------------------------ claim vocabulary
Rows == 0 .. (dst.nrows - 1)
Cols == 0 .. (dst.ncols - 1)

\* dst(i, j) == expr(i, j) for every element.
DstEqualsExpr ==
    \A r \in Rows, c \in Cols : dst.data[r + c * dst.ldim] = elem(src, r, c)

\* The destination is contiguous in flattened order: the flattened index
\* r + c * nrows addresses element (r, c) of its storage.
DstContiguous ==
    \A r \in Rows, c \in Cols : r + c * dst.ldim = r + c * dst.nrows

\* The organization is valid for the destination: linear organization
\* needs a contiguous destination, per-column fits any dense destination.
OrgValid == org = "as_linear_vec" => DstContiguous

Running == pc \in {"loop", "done"}

\* The cost the cost model assigns to an expression under an organization.
ModelCost(X, o) ==
    IF is_const_matrix(X) THEN 0 ELSE generic_vector_eval(X, o).cost

\* C1: evaluate with the default policy leaves dst(i, j) == expr(i, j) for
\* every element of every dense destination of matching shape, also one whose
\* leading dimension exceeds its row count, and uses linear organization
\* only with a contiguous destination.
C1_DefaultPolicyFillsDst ==
    (req = "default" /\ pc = "done") =>
        /\ DstEqualsExpr
        /\ (org = "as_linear_vec" => DstContiguous)

\* C2: for every expression type the default policy selects an
\* organization, and it selects linear exactly when the linear cost is at
\* most the per-column cost.
C2_DefaultPolicySelectsCheapest ==
    (req = "default" /\ pc # "start") =>
        /\ org \in Orgs
        /\ (org = "as_linear_vec") <=>
              (ModelCost(src, "as_linear_vec") <= ModelCost(src, "per_column"))

\* C3: the per-column cost of a non-constant expression is 0 when dense and
\* the cache penalty otherwise, plus the short-vector penalty exactly when
\* the row count is statically known and below the threshold; a dynamic row
\* count is never charged the penalty.
C3_PercolCost ==
    (Running /\ org = "per_column" /\ ~is_const_matrix(src)) =>
        generic_vector_eval(src, "per_column").cost =
            (IF is_dense_mat(src) THEN 0 ELSE VEC_EVAL_CACHE_COST)
          + (IF ct_rows(src) # DynamicDim
                /\ ct_rows(src) < SHORTVEC_LENGTH_THRESHOLD
             THEN SHORTVEC_PERCOL_COST ELSE 0)


\* C4 as stated: linear organization for a dense, non-contiguous expression
\* is rejected when the program is built: no evaluation of it runs.
C4_StridedLinearRejected ==
    (src.kind = "dense_strided" /\ req = "as_linear_vec") =>
        pc \in {"start", "rejected"}

\* C4 as amended: linear organization for a dense, non-contiguous
\* expression is accepted; it resolves to cached_linear_evaluator at the
\* cache cost, the evaluator reads a contiguous temporary holding the
\* expression, and a contiguous destination ends equal to the expression.
C4_StridedLinearCached ==
    (src.kind = "dense_strided" /\ req = "as_linear_vec" /\ pc # "start") =>
        /\ pc # "rejected"
        /\ org = "as_linear_vec"
        /\ has_member(vector_eval(src, org), "cost")
        /\ vector_eval(src, org).cost = VEC_EVAL_CACHE_COST
        /\ pc = "loop" =>
              /\ evaluator.type = "cached_linear_evaluator"
              /\ \A r \in Rows, c \in Cols :
                    evaluator.m_cache.data[r + c * dst.nrows] = elem(src, r, c)
        /\ (pc = "done" /\ DstContiguous) => DstEqualsExpr

C4_Witness ==
    /\ src.kind = "dense_strided" /\ req = "as_linear_vec"
    /\ src.ldim > src.nrows /\ dst.ncols >= 2 /\ dst.nrows >= 2
    /\ DstContiguous
    /\ pc = "done"

\* C5: a dense contiguous expression evaluated under linear organization
\* into a contiguous destination, with a static or a dynamic element count:
\* dst[p] == src[p] for every flattened index, the linear cost is 0 and the
\* evaluator is continuous_linear_evaluator.
C5_ContiguousLinear ==
    (src.kind = "dense_contiguous" /\ org = "as_linear_vec" /\ DstContiguous) =>
        /\ has_member(vector_eval(src, org), "cost")
        /\ vector_eval(src, org).cost = 0
        /\ pc = "loop" => evaluator.type = "continuous_linear_evaluator"
        /\ pc = "done" =>
              \A p \in 0 .. (nelems(dst) - 1) : dst.data[p] = src.data[p]

C5_Witness ==
    /\ src.kind = "dense_contiguous" /\ org = "as_linear_vec" /\ DstContiguous
    /\ binary_ct_size(src, dst) # DynamicDim
    /\ nelems(dst) >= 4
    /\ pc = "done"

\* C6: a dense strided expression evaluated under per-column organization,
\* whatever the leading dimensions of source and destination:
\* dst[r + c*dst_ldim] == expr(r, c) for every element, the evaluator is
\* dense_percol_evaluator and its normal cost is 0.
C6_StridedPercol ==
    (src.kind = "dense_strided" /\ org = "per_column") =>
        /\ has_member(vector_eval(src, org), "normal_cost")
        /\ vector_eval(src, org).normal_cost = 0
        /\ pc = "loop" => evaluator.type = "dense_percol_evaluator"
        /\ pc = "done" =>
              \A r \in Rows, c \in Cols :
                  dst.data[r + c * dst.ldim] = src.data[r + c * src.ldim]

C6_Witness ==
    /\ src.kind = "dense_strided" /\ org = "per_column"
    /\ src.ldim > src.nrows /\ dst.ldim = dst.nrows
    /\ dst.ncols >= 2 /\ dst.nrows >= 2
    /\ pc = "done"

\* Events of the log of one kind.
Count(kind) == Cardinality({k \in DOMAIN log : log[k][1] = kind})

ReadLdim ==
    CASE src.kind = "const_matrix" -> 0
      [] src.kind = "non_dense" -> src.nrows
      [] OTHER -> src.ldim

\* The events of a per-column call after the construction of the evaluator.
LoopLog == SelectSeq(log, LAMBDA e : e[1] # "materialize")

\* The k-th event (from 0) of a per-column evaluation in the claimed order:
\* column by column, the rows of a column in increasing order reading
\* offset r of the column and writing dst[r + c*ldim], then one next_column.
ExpectedEvent(k) ==
    LET nr == dst.nrows
        c == k \div (nr + 1)
        r == k % (nr + 1)
    IN  IF r = nr THEN <<"next_column">>
        ELSE <<"rw", r + c * dst.ldim, r + c * ReadLdim>>

\* C9: a per-column evaluation visits column 0, 1, ..., ncols-1 in order,
\* the rows of a column in strictly increasing order, and invokes
\* next_column exactly once after each column and before the next: never
\* inside a column, never skipped, never doubled, ncols times in all.
C9_PercolOrder ==
    (org = "per_column" /\ Running) =>
        /\ Len(LoopLog) <= dst.ncols * (dst.nrows + 1)
        /\ \A k \in 1 .. Len(LoopLog) : LoopLog[k] = ExpectedEvent(k - 1)
        /\ pc = "done" =>
              /\ Len(LoopLog) = dst.ncols * (dst.nrows + 1)
              /\ Count("next_column") = dst.ncols
              /\ Count("rw") = nelems(dst)

C9_Witness ==
    /\ org = "per_column" /\ pc = "done"
    /\ dst.ncols >= 2 /\ dst.nrows >= 2
    /\ src.kind = "dense_strided" /\ src.ldim > src.nrows
    /\ Count("next_column") = dst.ncols

\* C10: a second evaluate with the same expression and destination leaves
\* the destination as the first call left it; each call starts with a
\* fresh evaluator whose cursor is at the first column.
C10_Idempotent ==
    /\ (pc = "done" /\ calls >= 2) => dst.data = dst_first
    /\ (pc = "loop" /\ Count("next_column") = 0) => evaluator.m_data = 0

C10_Witness ==
    /\ pc = "done" /\ calls = 2
    /\ org = "per_column"
    /\ src.kind = "dense_strided" /\ src.ldim > src.nrows
    /\ dst.ncols >= 2 /\ dst.nrows >= 1
    /\ Count("next_column") = dst.ncols
    /\ DstEqualsExpr


\* next_column events before the k-th event of the log: the column the
\* evaluator's cursor is at when the k-th event happens.
ColumnAt(k) ==
    Cardinality({m \in 1 .. (k - 1) : log[m][1] = "next_column"})

\* C12: every get_value(i) of a call on matching shapes reads inside the
\* evaluator's backing storage (the source, or the private temporary); a
\* per-column read is at a row of the cursor's current column; and the
\* cursor left by the last next_column, one column past the last (also with
\* no columns or no rows), is not read through.
C12_ReadsInsideStorage ==
    (pc = "loop" /\ ~is_const(evaluator)) =>
        /\ \A k \in DOMAIN log : log[k][1] = "rw" =>
              /\ log[k][3] \in DOMAIN backing(evaluator, src)
              /\ org = "per_column" =>
                    /\ ColumnAt(k) < dst.ncols
                    /\ log[k][3] - ColumnAt(k) * evaluator.m_ldim
                          \in 0 .. (dst.nrows - 1)
        /\ (org = "per_column" /\ j = dst.ncols) =>
              /\ evaluator.m_data = dst.ncols * evaluator.m_ldim
              /\ evaluator.m_data \notin
                    {log[k][3] : k \in {m \in DOMAIN log : log[m][1] = "rw"}}
              /\ dst.ncols > 0 => log[Len(log)] = <<"next_column">>

C12_Witness ==
    /\ pc = "loop" /\ org = "per_column" /\ j = dst.ncols
    /\ is_cached(evaluator)
    /\ dst.ncols >= 2 /\ dst.nrows >= 2
    /\ Count("rw") = nelems(dst)


\* Writes of the current call to position p of the destination storage.
WritesAt(p) ==
    Cardinality({k \in DOMAIN log : log[k][1] = "rw" /\ log[k][2] = p})

\* Position p of the destination storage holds an element of the matrix.
IsElementPos(p) == \E r \in Rows, c \in Cols : p = r + c * dst.ldim

\* C13: a per-column call writes every position r + c*ldim of the
\* destination storage exactly once and nothing else: the padding between
\* the columns keeps its values, and the storage of the source expression
\* is as it was before the call.
C13_PercolFrame ==
    (org = "per_column" /\ Running) =>
        /\ \A k \in DOMAIN log :
              log[k][1] = "rw" => log[k][2] \in DOMAIN dst.data
        /\ \A p \in DOMAIN dst.data :
              /\ WritesAt(p) <= 1
              /\ pc = "done" =>
                    WritesAt(p) = IF IsElementPos(p) THEN 1 ELSE 0
              /\ ~IsElementPos(p) => (WritesAt(p) = 0 /\ dst.data[p] = 0)
        /\ src.val = IF is_const_matrix(src) THEN 7 ELSE 0
        /\ \A p \in DOMAIN src.data : src.data[p] = p + 1

C13_Witness ==
    /\ org = "per_column" /\ pc = "done"
    /\ src.kind = "dense_contiguous"
    /\ dst.ldim > dst.nrows /\ dst.ncols >= 2 /\ dst.nrows >= 2
    /\ \A r \in Rows, c \in Cols : WritesAt(r + c * dst.ldim) = 1


\* ------------------------------------------------------ concurrent calls
\* Two threads call evaluate at the same time, each on its own destination,
\* both on the expression src.  All storage lies in one address space, heap:
\* the source, the destinations and the temporaries of the cached
\* evaluators.  A pointer is a base address plus the offset the sequential
\* model uses.
MaxConcRows == 2
MaxConcCols == 2
MaxConcPad == 1

Threads == {1, 2}

seq_vars == <<dst, req, pc, org, evaluator, i, j, pd, log, ncache, calls,
              dst_first>>

SrcSize == Cardinality(DOMAIN src.data)

DstSize(t) == threads[t].dst.ldim * threads[t].dst.ncols

CacheSize == src.nrows * src.ncols

\* X.ptr_data()
src_base == 0

\* dst.ptr_data(): the destinations are disjoint blocks, one after the other.
dst_base(t) == SrcSize + (IF t = 1 THEN 0 ELSE DstSize(1))

\* Faulty variant: one temporary shared by all evaluators.
cache_base_shared(t) == SrcSize + DstSize(1) + DstSize(2)

\* m_cache.ptr_data(): m_cache is a member of the evaluator, its storage
\* is the evaluator's own.
cache_base(t) == SrcSize + DstSize(1) + DstSize(2) + (t - 1) * CacheSize

\* The expression as the threads see it: its storage read from the heap.
SrcView ==
    [src EXCEPT !.data = [p \in DOMAIN src.data |-> heap[src_base + p]]]

\* The evaluator of thread t with its temporary read from the heap.
EvalView(t) ==
    [threads[t].evaluator EXCEPT
        !.m_cache.data = [p \in 0 .. (CacheSize - 1) |->
                             heap[cache_base(t) + p]]]

\* The address get_value(k) reads: none for a constant evaluator.
read_address(t, k) ==
    LET E == threads[t].evaluator
    IN  IF is_const(E) THEN {}
        ELSE IF is_cached(E) THEN {cache_base(t) + E.m_data + k}
        ELSE {src_base + E.m_data + k}

\* The source addresses a materialisation of the expression reads.
materialize_reads ==
    IF is_const_matrix(src) THEN {}
    ELSE {src_base + r + c * src.ldim :
             r \in 0 .. (src.nrows - 1), c \in 0 .. (src.ncols - 1)}

InitConc ==
    /\ \E kind \in ExprKinds, sd \in StaticDims,
          nr \in 0 .. MaxConcRows, nc \in 0 .. MaxConcCols,
          spad \in 0 .. MaxConcPad :
          /\ sd # "dynamic" => nr > 0
          /\ sd = "ct_rows_cols" => nc > 0
          /\ kind # "dense_strided" => spad = 0
          /\ src = MakeSrc(kind, sd, nr, nc, spad)
    /\ \E dpad \in [Threads -> 0 .. MaxConcPad], o \in [Threads -> Orgs] :
          threads = [t \in Threads |->
                       [dst |-> [nrows |-> src.nrows, ncols |-> src.ncols,
                                 ldim |-> src.nrows + dpad[t]],
                        org |-> o[t], pc |-> "resolved",
                        evaluator |-> NoEvaluator,
                        i |-> 0, j |-> 0, pd |-> 0,
                        reads |-> {}, writes |-> {}]]
    /\ heap = [a \in 0 .. (SrcSize + DstSize(1) + DstSize(2)
                             + 2 * CacheSize - 1) |->
                  IF a < SrcSize THEN src.data[a] ELSE 0]
    /\ dst = MakeDst(0, 0, 0)
    /\ req = "none"
    /\ pc = "concurrent"
    /\ org = "none"
    /\ evaluator = NoEvaluator
    /\ i = 0 /\ j = 0 /\ pd = 0
    /\ log = << >>
    /\ ncache = 0
    /\ calls = 0
    /\ dst_first = << >>

\* evaluator_type evaluator(src): a cached evaluator fills its temporary.
conc_construct(t) ==
    /\ threads[t].pc = "resolved"
    /\ LET E == construct(vector_eval(src, threads[t].org).evaluator_type,
                          SrcView)
       IN  /\ heap' = IF is_cached(E)
                      THEN [a \in DOMAIN heap |->
                              IF a - cache_base(t) \in DOMAIN E.m_cache.data
                              THEN E.m_cache.data[a - cache_base(t)]
                              ELSE heap[a]]
                      ELSE heap
           /\ threads' = [threads EXCEPT
                 ![t].evaluator = [E EXCEPT !.m_cache.data = << >>],
                 ![t].pc = "loop",
                 ![t].reads = IF is_cached(E) THEN @ \cup materialize_reads
                                              ELSE @,
                 ![t].writes = IF is_cached(E)
                               THEN @ \cup {cache_base(t) + p :
                                              p \in DOMAIN E.m_cache.data}
                               ELSE @]
    /\ UNCHANGED <<src, seq_vars>>

\* linear_eval_impl body in thread t
conc_linear_step(t) ==
    LET T == threads[t]
    IN  /\ T.pc = "loop" /\ T.org = "as_linear_vec"
        /\ T.i < linear_len(src, T.dst)
        /\ \E v \in get_value(EvalView(t), SrcView, T.i) :
              heap' = Store(heap, dst_base(t) + T.pd + T.i, v)
        /\ threads' = [threads EXCEPT
              ![t].i = @ + 1,
              ![t].reads = @ \cup read_address(t, T.i),
              ![t].writes = @ \cup {dst_base(t) + T.pd + T.i}]
        /\ UNCHANGED <<src, seq_vars>>

\* percol_eval_impl inner loop body in thread t
conc_percol_step(t) ==
    LET T == threads[t]
    IN  /\ T.pc = "loop" /\ T.org = "per_column"
        /\ T.j < T.dst.ncols
        /\ T.i < percol_rows(src, T.dst)
        /\ \E v \in get_value(EvalView(t), SrcView, T.i) :
              heap' = Store(heap, dst_base(t) + T.pd + T.i, v)
        /\ threads' = [threads EXCEPT
              ![t].i = @ + 1,
              ![t].reads = @ \cup read_address(t, T.i),
              ![t].writes = @ \cup {dst_base(t) + T.pd + T.i}]
        /\ UNCHANGED <<src, seq_vars>>

\* percol_eval_impl outer loop increment in thread t
conc_percol_next(t) ==
    LET T == threads[t]
    IN  /\ T.pc = "loop" /\ T.org = "per_column"
        /\ T.j < T.dst.ncols
        /\ T.i >= percol_rows(src, T.dst)
        /\ threads' = [threads EXCEPT
              ![t].j = @ + 1,
              ![t].pd = @ + T.dst.ldim,
              ![t].evaluator = next_column(@),
              ![t].i = 0]
        /\ UNCHANGED <<src, heap, seq_vars>>

\* evaluate returns in thread t
conc_return(t) ==
    LET T == threads[t]
    IN  /\ T.pc = "loop"
        /\ IF T.org = "as_linear_vec" THEN T.i >= linear_len(src, T.dst)
                                      ELSE T.j >= T.dst.ncols
        /\ threads' = [threads EXCEPT ![t].pc = "done",
                                      ![t].evaluator = NoEvaluator]
        /\ UNCHANGED <<src, heap, seq_vars>>

NextConc ==
    \E t \in Threads :
        \/ conc_construct(t)
        \/ conc_linear_step(t)
        \/ conc_percol_step(t)
        \/ conc_percol_next(t)
        \/ conc_return(t)

SpecConc == InitConc /\ [][NextConc]_vars


\* One evaluate call run alone, start to return, on storage of its own:
\* the loops of linear_eval_impl and percol_eval_impl and the destination
\* storage they leave.
RECURSIVE linear_run(_, _, _, _, _)
linear_run(E, X, D, data, ii) ==
    IF ii >= linear_len(X, D) THEN data
    ELSE linear_run(E, X, D,
                    Store(data, ii, CHOOSE v \in get_value(E, X, ii) : TRUE),
                    ii + 1)

RECURSIVE percol_run(_, _, _, _, _, _, _)
percol_run(E, X, D, data, jj, ii, pdd) ==
    IF jj >= D.ncols THEN data
    ELSE IF ii < percol_rows(X, D)
         THEN percol_run(E, X, D,
                         Store(data, pdd + ii,
                               CHOOSE v \in get_value(E, X, ii) : TRUE),
                         jj, ii + 1, pdd)
         ELSE percol_run(next_column(E), X, D, data, jj + 1, 0, pdd + D.ldim)

evaluate_alone(X, D, o) ==
    LET E == construct(vector_eval(X, o).evaluator_type, X)
    IN  IF o = "as_linear_vec" THEN linear_run(E, X, D, D.data, 0)
                               ELSE percol_run(E, X, D, D.data, 0, 0, 0)

\* The destination storage of thread t, as it is in the heap.
DstData(t) == [p \in 0 .. (DstSize(t) - 1) |-> heap[dst_base(t) + p]]

\* The destination thread t starts from.
DstBefore(t) ==
    MakeDst(threads[t].dst.nrows, threads[t].dst.ncols,
            threads[t].dst.ldim - threads[t].dst.nrows)

\* C11: two evaluate calls running concurrently on disjoint destinations,
\* reading the same expression: under every interleaving no call reads or
\* writes an address the other call writes, and each destination ends with
\* the contents the same call leaves when it runs alone.
C11_ConcurrentCalls ==
    /\ \A t \in Threads : \A u \in Threads \ {t} :
          threads[t].writes
             \cap (threads[u].reads \cup threads[u].writes) = {}
    /\ \A t \in Threads :
          threads[t].pc = "done" =>
              DstData(t) = evaluate_alone(src, DstBefore(t), threads[t].org)

C11_Witness ==
    /\ \A t \in Threads : threads[t].pc = "done"
    /\ src.kind = "non_dense" /\ src.nrows >= 2 /\ src.ncols >= 2
    /\ threads[1].org = "per_column" /\ threads[2].org = "per_column"
    /\ threads[1].dst.ldim > threads[1].dst.nrows
    /\ threads[1].reads \cap threads[2].reads # {}
    /\ threads[1].writes # {} /\ threads[2].writes # {}

\* The sequential model's calls leave what evaluate_alone computes.
AloneAgreesWithSteps ==
    (pc = "done" /\ calls = 1) =>
        dst.data = evaluate_alone(src, MakeDst(dst.nrows, dst.ncols,
                                               dst.ldim - dst.nrows), org)

====
